---- MODULE Spec2Model ----
(***************************************************************************)
(* Model of the onboarding form (src/components/onboarding/               *)
(* onboarding-form.tsx) and of its corporation-number lookup hook         *)
(* (src/hooks/use-corporation-number-validation.ts).                      *)
(*                                                                         *)
(* Scheduling.  The program runs on a single-threaded event loop.  An     *)
(* await whose promise settles through microtasks only (the zod resolver  *)
(* behind trigger() and handleSubmit(), the return of an async function)  *)
(* cannot be interleaved with a user event, so the code around it is one  *)
(* atomic action.  The two network calls (the lookup GET and the profile  *)
(* POST) are the only real suspension points: each splits its handler     *)
(* into the part before the await and the continuation after it.          *)
(*                                                                         *)
(* Strings are modelled as sequences of one-character strings so that the *)
(* regular expressions and length rules are computed, not assumed.        *)
(***************************************************************************)
EXTENDS Integers, Sequences, FiniteSets, TLC

(***************************************************************************)
(* Bounds of the model.                                                    *)
(***************************************************************************)
MaxGets == 2
MaxPosts == 2
MaxControllers == 2

(***************************************************************************)
(* Strings.                                                                *)
(***************************************************************************)
Digit == {"0", "1", "2", "3", "4", "5", "6", "7", "8", "9"}

Empty == << >>
NumA == <<"1", "2", "3", "4", "5", "6", "7", "8", "9">>
NumB == <<"8", "2", "6", "4", "1", "7", "3", "9", "5">>
NumShort == <<"1", "2", "3">>
NumAlpha == <<"1", "2", "3", "4", "5", "6", "7", "8", "x">>

\* the corporation numbers a caller may pass or a user may type
CorpInputs == {Empty, NumA, NumB, NumShort, NumAlpha}

Null == "<null>"
Undefined == "<undefined>"

FallbackMessage == "Invalid corporation number"
ServiceMessage == "Corporation number not found"

(***************************************************************************)
(* /^\d{9}$/.test(corporationNumber)                                       *)
(***************************************************************************)
DigitsOnly(s) == \A i \in 1..Len(s) : s[i] \in Digit

MatchesNineDigits(s) == Len(s) = 9 /\ \A i \in 1..Len(s) : s[i] \in Digit

(***************************************************************************)
(* Results, responses and requests.                                        *)
(***************************************************************************)
Result(v, m) == [valid |-> v, message |-> m]

\* the value of a validate() call that is suspended at its await
Pending == [valid |-> FALSE, message |-> "<pending>"]
NoResult == [valid |-> FALSE, message |-> "<none>"]

\* a ?? b
Coalesce(a, b) == IF a \in {Null, Undefined} THEN b ELSE a

\* what the awaited fetch (and response.json()) hands to the continuation
Resp(k, v, m) == [kind |-> k, valid |-> v, message |-> m]
NoOutcome == Resp("none", FALSE, Undefined)
AbortError == Resp("abort", FALSE, Undefined)
TransportFailure == Resp("fail", FALSE, Undefined)
Non2xx == Resp("non2xx", FALSE, Undefined)

\* 2xx bodies of the lookup service: {valid: true}, {valid: false, message},
\* {valid: false}
ServerPayloads ==
    { Resp("ok", TRUE, Undefined),
      Resp("ok", FALSE, ServiceMessage),
      Resp("ok", FALSE, Undefined) }

NetworkOutcomes == ServerPayloads \cup {Non2xx, TransportFailure}

VARIABLES
    values,         \* react-hook-form values of the four fields
    errors,         \* react-hook-form formState.errors, per field
    serverError,    \* useState serverError
    serverSuccess,  \* useState serverSuccess
    cache,          \* cacheRef.current : number -> result
    abortRef,       \* abortRef.current : id of the latest controller, 0 = null
    status,         \* useState status
    errorMessage,   \* useState errorMessage
    mounted,        \* the component is mounted
    reqs,           \* lookup requests whose fetch is awaited
    gets,           \* log of the numbers a GET was issued for
    posts,          \* log of the bodies POSTed to the profile endpoint
    procs,          \* suspended handler invocations
    lastOp          \* the operation that produced this state, and its result

hookVars == <<cache, abortRef, status, errorMessage, reqs, gets>>
formVars == <<values, errors, serverError, serverSuccess, posts>>
vars == <<values, errors, serverError, serverSuccess, cache, abortRef, status,
          errorMessage, mounted, reqs, gets, posts, procs, lastOp>>

\* out: what the awaited network call handed to a continuation
Op(o, n, r, res, out) == [op |-> o, num |-> n, req |-> r, ret |-> res, out |-> out]

(***************************************************************************)
(* React drops a state update of an unmounted component.                   *)
(***************************************************************************)
SetState(old, new) == IF mounted THEN new ELSE old

(***************************************************************************)
(* AbortController.abort() on the controller with identity id.             *)
(***************************************************************************)
AbortNothing(rs, id, by) == rs

Aborted(rs, id, by) ==
    { IF r.id = id /\ ~r.aborted
      THEN [r EXCEPT !.aborted = TRUE, !.by = by]
      ELSE r : r \in rs }

(***************************************************************************)
(* How the awaited fetch of request r (and the read of its body) can end.  *)
(* A live request is answered by the service or fails in transport.  A     *)
(* fetch that is aborted before the transport holds its response rejects   *)
(* with an AbortError.  When the response was already received at the time *)
(* of the abort (its continuation has not run yet: the body is still being *)
(* read, or the resolution is queued behind other events) the abort comes  *)
(* too late on some platforms, and a fetch that does not observe the       *)
(* signal (the one the repository's tests install) resolves anyway: the    *)
(* awaiting code then still receives the response.  All are kept.          *)
(***************************************************************************)
SettledOutcomes(r) ==
    IF r.aborted THEN NetworkOutcomes \cup {AbortError} ELSE NetworkOutcomes

(***************************************************************************)
(* validate(corporationNumber), up to its first await or its return.      *)
(***************************************************************************)
NeverCached(n) == FALSE

\* cacheRef.current.get(corporationNumber) is truthy
IsCached(n) == n \in DOMAIN cache

\* what the call returns without suspending, or Pending
ValidateSync(n) ==
    IF ~MatchesNineDigits(n) THEN Result(FALSE, Undefined)
    ELSE IF IsCached(n) THEN cache[n]
    ELSE Pending

StatusOf(res) == IF res.valid THEN "valid" ELSE "invalid"
\* no message is ever stored
MessageAlwaysNull(res) == Null

MessageOf(res) == IF res.valid THEN Null ELSE Coalesce(res.message, Null)

\* `${CORPORATION_ENDPOINT}/${corporationNumber}`
CorporationEndpoint ==
    <<"https://fe-hometask-api.qa.vault.tryvault.com/corporation-number">>

LookupUrlWithoutNumber(n) == CorporationEndpoint

LookupUrl(n) == CorporationEndpoint \o <<"/">> \o n

NewRequest(n) ==
    [id |-> Len(gets) + 1, num |-> n, url |-> LookupUrl(n), aborted |-> FALSE,
     by |-> "none"]

ValidateCall(n) ==
    IF ~MatchesNineDigits(n)
    THEN UNCHANGED hookVars
    ELSE IF IsCached(n)
    THEN /\ status' = SetState(status, StatusOf(cache[n]))
         /\ errorMessage' = SetState(errorMessage, MessageOf(cache[n]))
         /\ UNCHANGED <<cache, abortRef, reqs, gets>>
    ELSE /\ reqs' = Aborted(reqs, abortRef, "validate") \cup {NewRequest(n)}
         /\ abortRef' = Len(gets) + 1
         /\ gets' = Append(gets, n)
         /\ status' = SetState(status, "loading")
         /\ errorMessage' = SetState(errorMessage, Null)
         /\ UNCHANGED cache

(***************************************************************************)
(* validate(), from the await of fetch to its return, for request r whose  *)
(* awaited fetch ended with o.                                             *)
(***************************************************************************)
PayloadResultFixedMessage(resp) ==
    Result(resp.valid, IF resp.valid THEN Undefined ELSE FallbackMessage)

PayloadResult(resp) ==
    Result(resp.valid,
           IF resp.valid THEN Undefined
           ELSE Coalesce(resp.message, FallbackMessage))

\* the value the suspended validate() call returns
ValidateResult(r, o) ==
    CASE o.kind = "non2xx" -> Result(FALSE, FallbackMessage)
      [] o.kind = "ok" -> PayloadResult(o)
      [] OTHER -> IF r.aborted THEN Result(FALSE, Undefined)
                  ELSE Result(FALSE, FallbackMessage)

\* the continuation leaves the hook's state alone: the catch block of an
\* aborted request
AlwaysDiscarded(r, o) == TRUE

IsDiscarded(r, o) == o.kind \in {"fail", "abort"} /\ r.aborted

\* cacheRef.current.set() is reached on the 2xx path only
CachesAnyOutcome(o) == o.kind # "abort"

CachesResult(o) == o.kind = "ok"

CacheSet(c, n, res) == [k \in DOMAIN c \cup {n} |-> IF k = n THEN res ELSE c[k]]

ValidateResume(r, o) ==
    /\ r \in reqs
    /\ o \in SettledOutcomes(r)
    /\ reqs' = reqs \ {r}
    /\ cache' = IF CachesResult(o)
                THEN CacheSet(cache, r.num, ValidateResult(r, o))
                ELSE cache
    /\ IF IsDiscarded(r, o)
       THEN UNCHANGED <<status, errorMessage>>
       ELSE /\ status' = SetState(status, StatusOf(ValidateResult(r, o)))
            /\ errorMessage' = SetState(errorMessage, MessageOf(ValidateResult(r, o)))
    /\ UNCHANGED <<abortRef, gets>>

(***************************************************************************)
(* reset() of the hook.                                                    *)
(***************************************************************************)
HookReset ==
    /\ reqs' = Aborted(reqs, abortRef, "reset")
    /\ status' = SetState(status, "idle")
    /\ errorMessage' = SetState(errorMessage, Null)
    /\ UNCHANGED <<cache, abortRef, gets>>

(***************************************************************************)
(* The effect cleanup: unmounting aborts the latest controller.            *)
(***************************************************************************)
Unmount ==
    /\ mounted
    /\ mounted' = FALSE
    /\ reqs' = Aborted(reqs, abortRef, "unmount")
    /\ lastOp' = Op("unmount", Empty, 0, NoResult, NoOutcome)
    /\ UNCHANGED <<cache, abortRef, status, errorMessage, gets, procs>>
    /\ UNCHANGED formVars

(***************************************************************************)
(* The hook driven directly by a client.                                   *)
(***************************************************************************)
Proc(k, pc, r, p, v) == [kind |-> k, pc |-> pc, req |-> r, post |-> p, vals |-> v]

DefaultValues ==
    [firstName |-> Empty, lastName |-> Empty, phone |-> Empty,
     corporationNumber |-> Empty]

Fields == {"firstName", "lastName", "phone", "corporationNumber"}
NoError == "<no error>"
NoErrors == [f \in Fields |-> NoError]

Call(n) ==
    /\ mounted
    /\ MatchesNineDigits(n) /\ ~IsCached(n) => Len(gets) < MaxGets
    /\ ValidateCall(n)
    /\ IF ValidateSync(n) = Pending
       THEN /\ procs' = procs \cup {Proc("call", "lookup", Len(gets) + 1, 0, DefaultValues)}
            /\ lastOp' = Op("validate", n, Len(gets) + 1, Pending, NoOutcome)
       ELSE /\ procs' = procs
            /\ lastOp' = Op("validate", n, 0, ValidateSync(n), NoOutcome)
    /\ UNCHANGED mounted
    /\ UNCHANGED formVars

CallResume(p, r, o) ==
    /\ p \in procs /\ p.kind = "call" /\ p.pc = "lookup"
    /\ r.id = p.req
    /\ ValidateResume(r, o)
    /\ procs' = procs \ {p}
    /\ lastOp' = Op("resume", r.num, r.id, ValidateResult(r, o), o)
    /\ UNCHANGED mounted
    /\ UNCHANGED formVars

CallReset ==
    /\ mounted
    /\ HookReset
    /\ lastOp' = Op("reset", Empty, 0, NoResult, NoOutcome)
    /\ UNCHANGED <<mounted, procs>>
    /\ UNCHANGED formVars

(***************************************************************************)
(* onboardingSchema: the synchronous rule of each field, as the message of *)
(* its first failing check.                                                *)
(***************************************************************************)
MaxNameLen == 50

Hello == <<"H", "e", "l", "l", "o">>
World == <<"W", "o", "r", "l", "d">>
Phone == <<"+", "1", "3", "0", "6", "2", "7", "7", "6", "1", "0", "3">>

\* what the user may type into each field: the first name and the corporation
\* number may also be erased again
FieldInputs ==
    [firstName |-> {Empty, Hello},
     lastName |-> {World},
     phone |-> {Phone},
     corporationNumber |-> {Empty, NumA, NumB}]

FirstNameError(v) ==
    IF Len(v) < 1 THEN "First name is required"
    ELSE IF Len(v) > MaxNameLen THEN "First name must be 50 characters or less"
    ELSE NoError

LastNameError(v) ==
    IF Len(v) < 1 THEN "Last name is required"
    ELSE IF Len(v) > MaxNameLen THEN "Last name must be 50 characters or less"
    ELSE NoError

\* /^\+1\d{10}$/
MatchesPhone(s) ==
    /\ Len(s) = 12
    /\ s[1] = "+"
    /\ s[2] = "1"
    /\ \A i \in 3..12 : s[i] \in Digit

PhoneError(v) ==
    IF MatchesPhone(v) THEN NoError
    ELSE "Enter a valid Canadian phone number starting with +1 followed by 10 digits"

CorporationNumberError(v) ==
    IF MatchesNineDigits(v) THEN NoError
    ELSE "Corporation number must be exactly 9 digits"

SchemaErrorsWithoutPhone(vals) ==
    [firstName |-> FirstNameError(vals.firstName),
     lastName |-> LastNameError(vals.lastName),
     phone |-> NoError,
     corporationNumber |-> CorporationNumberError(vals.corporationNumber)]

SchemaErrors(vals) ==
    [firstName |-> FirstNameError(vals.firstName),
     lastName |-> LastNameError(vals.lastName),
     phone |-> PhoneError(vals.phone),
     corporationNumber |-> CorporationNumberError(vals.corporationNumber)]

(***************************************************************************)
(* The form.                                                               *)
(***************************************************************************)
SuccessMessage == "Details submitted successfully."
SubmissionFailedMessage == "Submission failed. Review your details and try again."
UnableToSubmitMessage == "Unable to submit form right now. Please try again."
ServerRejectionMessage == "Phone number already registered"

\* how the POST ends: 2xx, non-2xx with or without {message}, or a throw
PostOutcomes ==
    { Resp("ok", TRUE, Undefined),
      Resp("non2xx", FALSE, ServerRejectionMessage),
      Resp("non2xx", FALSE, Undefined),
      Resp("fail", FALSE, Undefined) }

\* the user types v into field f (onChangeText); mode onBlur validates nothing
ChangeText(f, v) ==
    /\ mounted
    /\ v # values[f]
    /\ values' = [values EXCEPT ![f] = v]
    /\ lastOp' = Op("change", Empty, 0, NoResult, NoOutcome)
    /\ UNCHANGED <<errors, serverError, serverSuccess, posts, mounted, procs>>
    /\ UNCHANGED hookVars

\* setError("corporationNumber", ...) or clearErrors("corporationNumber")
\* after validate() returned res
CorporationErrorAfter(res) ==
    IF ~res.valid THEN Coalesce(res.message, FallbackMessage) ELSE NoError

\* the boolean ensureCorporationValid() returns once validate() returned res
CorporationAlwaysOk(res) == TRUE

CorporationOk(res) == res.valid

(***************************************************************************)
(* ensureCorporationValid(), up to the await of the lookup or its return,  *)
(* on the errors errs that the caller's own validation left.  trigger()    *)
(* sets or clears the field's format error; a number of the right shape is *)
(* passed to validate().                                                   *)
(***************************************************************************)
EnsureResult ==
    IF CorporationNumberError(values.corporationNumber) # NoError
    THEN NoResult
    ELSE ValidateSync(values.corporationNumber)

EnsureCorporationValid(errs) ==
    LET v == values.corporationNumber
        base == CorporationNumberError(v)
    IN  IF base # NoError
        THEN /\ errors' = [errs EXCEPT !.corporationNumber = base]
             /\ UNCHANGED hookVars
        ELSE /\ ValidateCall(v)
             /\ errors' = [errs EXCEPT !.corporationNumber =
                              IF ValidateSync(v) = Pending THEN NoError
                              ELSE CorporationErrorAfter(ValidateSync(v))]

NeedsGet(v) == MatchesNineDigits(v) /\ ~IsCached(v)

\* onBlur of the corporation input: field.onBlur(), then handleCorporationBlur
BlurCorporation ==
    /\ mounted
    /\ NeedsGet(values.corporationNumber) => Len(gets) < MaxGets
    /\ EnsureCorporationValid(errors)
    /\ procs' = IF EnsureResult = Pending
                THEN procs \cup {Proc("blur", "lookup", Len(gets) + 1, 0, DefaultValues)}
                ELSE procs
    /\ lastOp' = Op("blur", values.corporationNumber,
                    IF EnsureResult = Pending THEN Len(gets) + 1 ELSE 0,
                    EnsureResult, NoOutcome)
    /\ UNCHANGED <<values, serverError, serverSuccess, posts, mounted>>

PendingSubmits == {p \in procs : p.kind = "submit" /\ p.pc = "lookup"}

\* onPress of the submit button: handleSubmit validates every field and, when
\* none fails, runs the callback up to its first network await
SubmitPress ==
    /\ mounted
    /\ IF SchemaErrors(values) # NoErrors
       THEN /\ errors' = SchemaErrors(values)
            /\ lastOp' = Op("submitInvalid", values.corporationNumber, 0, NoResult, NoOutcome)
            /\ UNCHANGED <<serverError, serverSuccess, posts, procs>>
            /\ UNCHANGED hookVars
       ELSE /\ Len(posts) + Cardinality(PendingSubmits) < MaxPosts
            /\ NeedsGet(values.corporationNumber) => Len(gets) < MaxGets
            /\ serverError' = SetState(serverError, Null)
            /\ serverSuccess' = SetState(serverSuccess, Null)
            /\ EnsureCorporationValid(NoErrors)
            /\ lastOp' = Op("submit", values.corporationNumber,
                            IF EnsureResult = Pending THEN Len(gets) + 1 ELSE 0,
                            EnsureResult, NoOutcome)
            /\ IF EnsureResult = Pending
               THEN /\ procs' = procs \cup
                          {Proc("submit", "lookup", Len(gets) + 1, 0, values)}
                    /\ posts' = posts
               ELSE IF CorporationOk(EnsureResult)
               THEN /\ procs' = procs \cup
                          {Proc("submit", "post", 0, Len(posts) + 1, values)}
                    /\ posts' = Append(posts, values)
               ELSE /\ procs' = procs
                    /\ posts' = posts
    /\ UNCHANGED <<values, mounted>>

\* JSON.stringify(values): the values handleSubmit handed to the callback of
\* the suspended submit p
PostBodyFromForm(p) == values

PostBody(p) == p.vals

\* the lookup awaited by ensureCorporationValid() settles: validate() returns,
\* the field's error is set or cleared, and a submit goes on to its POST
LookupResume(p, r, o) ==
    /\ p \in procs /\ p.kind \in {"blur", "submit"} /\ p.pc = "lookup"
    /\ r.id = p.req
    /\ ValidateResume(r, o)
    /\ errors' = [errors EXCEPT !.corporationNumber =
                     CorporationErrorAfter(ValidateResult(r, o))]
    /\ IF p.kind = "submit" /\ CorporationOk(ValidateResult(r, o))
       THEN /\ procs' = (procs \ {p}) \cup
                  {Proc("submit", "post", 0, Len(posts) + 1, p.vals)}
            /\ posts' = Append(posts, PostBody(p))
       ELSE /\ procs' = procs \ {p}
            /\ posts' = posts
    /\ lastOp' = Op(IF p.kind = "submit" THEN "submitResume" ELSE "blurResume",
                    r.num, r.id, ValidateResult(r, o), o)
    /\ UNCHANGED <<values, serverError, serverSuccess, mounted>>

\* the POST of a submit settles with outcome o
PostResume(p, o) ==
    /\ p \in procs /\ p.kind = "submit" /\ p.pc = "post"
    /\ procs' = procs \ {p}
    /\ lastOp' = Op("post", p.vals.corporationNumber, p.post, NoResult, o)
    /\ IF o.kind = "ok"
       THEN /\ serverSuccess' = SetState(serverSuccess, SuccessMessage)
            /\ values' = DefaultValues
            /\ errors' = NoErrors
            /\ HookReset
            /\ UNCHANGED serverError
       ELSE /\ serverError' = SetState(serverError,
                                 IF o.kind = "non2xx"
                                 THEN Coalesce(o.message, SubmissionFailedMessage)
                                 ELSE UnableToSubmitMessage)
            /\ UNCHANGED <<serverSuccess, values, errors>>
            /\ UNCHANGED hookVars
    /\ UNCHANGED <<posts, mounted>>

(***************************************************************************)
(* What the component renders for the corporation field and the outcome of *)
(* a submission.                                                           *)
(***************************************************************************)
\* a string in a boolean position
Truthy(s) == s \notin {Null, Undefined, ""}

IsLoading == status = "loading"

CorporationErrorMatchesValidationMessage ==
    Truthy(errorMessage) /\ errors.corporationNumber = errorMessage

\* testID corporation-valid
ShowsCorporationValid == ~IsLoading /\ status = "valid"

\* testID corporation-validation-error, with text errorMessage
ShowsValidationError == ~IsLoading /\ status = "invalid" /\ Truthy(errorMessage)

\* testID corporation-error, with text errors.corporationNumber.message
ShowsCorporationErrorAlways == errors.corporationNumber # NoError

ShowsCorporationError ==
    errors.corporationNumber # NoError /\ ~CorporationErrorMatchesValidationMessage

\* the error texts on screen under the corporation input, top to bottom
RenderedCorporationErrors ==
    (IF ShowsValidationError THEN <<errorMessage>> ELSE << >>)
    \o (IF ShowsCorporationError THEN <<errors.corporationNumber>> ELSE << >>)

\* testIDs server-error and server-success
ShowsServerError == Truthy(serverError)
ShowsServerSuccess == Truthy(serverSuccess)

Init ==
    /\ values = DefaultValues
    /\ errors = NoErrors
    /\ serverError = Null
    /\ serverSuccess = Null
    /\ cache = << >>
    /\ abortRef = 0
    /\ status = "idle"
    /\ errorMessage = Null
    /\ mounted = TRUE
    /\ reqs = {}
    /\ gets = << >>
    /\ posts = << >>
    /\ procs = {}
    /\ lastOp = Op("init", Empty, 0, NoResult, NoOutcome)

HookNext ==
    \/ \E n \in CorpInputs : Call(n)
    \/ \E p \in procs, r \in reqs :
          \E o \in NetworkOutcomes \cup {AbortError} : CallResume(p, r, o)
    \/ CallReset
    \/ Unmount

HookSpec == Init /\ [][HookNext]_vars

(***************************************************************************)
(* The hook under an unbounded number of validate() calls.  The log of the *)
(* GETs is left out so that the state space stays finite; an                *)
(* AbortController is identified by a number that no unsettled request and *)
(* not abortRef holds, so that numbers can be used again.                  *)
(***************************************************************************)
Controllers == 1..MaxControllers

FreeControllers == Controllers \ ({r.id : r \in reqs} \cup {abortRef})

\* validate(n), up to its first await or its return, with c the identity of
\* the controller it creates
LoopValidateCall(n, c) ==
    IF ~MatchesNineDigits(n)
    THEN UNCHANGED hookVars
    ELSE IF IsCached(n)
    THEN /\ status' = SetState(status, StatusOf(cache[n]))
         /\ errorMessage' = SetState(errorMessage, MessageOf(cache[n]))
         /\ UNCHANGED <<cache, abortRef, reqs, gets>>
    ELSE /\ reqs' = Aborted(reqs, abortRef, "validate")
                       \cup {[NewRequest(n) EXCEPT !.id = c]}
         /\ abortRef' = c
         /\ status' = SetState(status, "loading")
         /\ errorMessage' = SetState(errorMessage, Null)
         /\ UNCHANGED <<cache, gets>>

LoopCall(n, c) ==
    /\ mounted
    /\ LoopValidateCall(n, c)
    /\ IF ValidateSync(n) = Pending
       THEN /\ procs' = procs \cup {Proc("call", "lookup", c, 0, DefaultValues)}
            /\ lastOp' = Op("validate", n, c, Pending, NoOutcome)
       ELSE /\ procs' = procs
            /\ lastOp' = Op("validate", n, 0, ValidateSync(n), NoOutcome)
    /\ UNCHANGED mounted
    /\ UNCHANGED formVars

\* the awaited fetch of the request of controller c settles and validate()
\* runs on
Settles(c) ==
    \E p \in procs, r \in reqs :
        /\ r.id = c
        /\ \E o \in NetworkOutcomes \cup {AbortError} : CallResume(p, r, o)

HookLoopNext ==
    \/ \E n \in CorpInputs, c \in FreeControllers : LoopCall(n, c)
    \/ \E c \in Controllers : Settles(c)
    \/ CallReset
    \/ Unmount

\* every request eventually gets a response or fails
EveryRequestSettles == \A c \in Controllers : WF_vars(Settles(c))

HookLoopSpec == Init /\ [][HookLoopNext]_vars /\ EveryRequestSettles

Next ==
    \/ \E f \in Fields : \E v \in FieldInputs[f] : ChangeText(f, v)
    \/ BlurCorporation
    \/ SubmitPress
    \/ \E p \in procs, r \in reqs :
          \E o \in NetworkOutcomes \cup {AbortError} : LookupResume(p, r, o)
    \/ \E p \in procs, o \in PostOutcomes : PostResume(p, o)

Spec == Init /\ [][Next]_vars

HookTypeOK ==
    /\ status \in {"idle", "loading", "valid", "invalid"}
    /\ abortRef \in 0..Len(gets)
    /\ \A r \in reqs : r.id \in 1..Len(gets) /\ gets[r.id] = r.num
    /\ \A n \in DOMAIN cache : MatchesNineDigits(n)

(***************************************************************************)
(* Vocabulary of the properties.                                           *)
(***************************************************************************)
\* the inputs that match ^\d{9}$
WellFormedNumbers == {NumA, NumB}

HookState == <<status, errorMessage, cache>>

\* this step runs the continuation of request r
Resumes(r) ==
    /\ r \in reqs
    /\ r \notin reqs'
    /\ lastOp'.op \in {"resume", "blurResume", "submitResume"}
    /\ lastOp'.req = r.id

\* this step is a direct validate(n) call
Validates(n) == lastOp'.op = "validate" /\ lastOp'.num = n

LiveRequests == {r \in reqs : ~r.aborted}

(***************************************************************************)
(* C1.  Cancellation ordering: once validate(B) has superseded the lookup  *)
(* of a distinct number A, the resolution of A's request, whatever it is   *)
(* and whenever it arrives, changes neither status, errorMessage nor the   *)
(* cache.                                                                  *)
(***************************************************************************)
\* request r was cancelled by the validate() of another number
SupersededByOther(r) ==
    /\ r.aborted
    /\ r.by = "validate"
    /\ r.id < Len(gets)
    /\ gets[r.id + 1] # r.num

C1_SupersededNeverApplies ==
    [][\A r \in reqs :
          (Resumes(r) /\ SupersededByOther(r)) => UNCHANGED HookState]_vars

(***************************************************************************)
(* C2.  Format precondition: a GET is only ever issued for a number that   *)
(* matches ^\d{9}$, and validate() on any other number returns             *)
(* {valid: false} and leaves status, errorMessage, the cache and the       *)
(* requests in flight alone.                                               *)
(***************************************************************************)
C2_FormatPrecondition ==
    [][/\ \A i \in DOMAIN gets' : gets'[i] \in WellFormedNumbers
       /\ \A n \in CorpInputs \ WellFormedNumbers :
             Validates(n) =>
                 /\ lastOp'.ret = Result(FALSE, Undefined)
                 /\ UNCHANGED <<cache, abortRef, status, errorMessage, reqs, gets>>
      ]_vars

\* validate() was called on a malformed number while a lookup was loading
C2_Witness ==
    /\ lastOp.op = "validate"
    /\ lastOp.num = NumShort
    /\ lastOp.ret = Result(FALSE, Undefined)
    /\ status = "loading"
    /\ LiveRequests # {}

(***************************************************************************)
(* C3.  Submission gate on the lookup: a submit that passed synchronous    *)
(* validation runs validate() on the corporation number again (a cache hit *)
(* or a new GET); a POST is issued only by a submit whose check returned   *)
(* valid; a check that returns invalid issues no POST and leaves the       *)
(* lookup's message as the corporation field's error.                      *)
(***************************************************************************)
C3_SubmissionGate ==
    [][/\ posts' # posts =>
             /\ lastOp'.op \in {"submit", "submitResume"}
             /\ lastOp'.ret.valid
             /\ Len(posts') = Len(posts) + 1
       /\ (lastOp'.op \in {"submit", "submitResume"}
             /\ lastOp'.ret # Pending /\ ~lastOp'.ret.valid) =>
             /\ posts' = posts
             /\ \A p \in procs' : p.pc = "post" => p \in procs
             /\ errors'.corporationNumber =
                    Coalesce(lastOp'.ret.message, FallbackMessage)
       /\ lastOp'.op = "submit" =>
             \/ /\ values.corporationNumber \in DOMAIN cache
                /\ lastOp'.ret = cache[values.corporationNumber]
             \/ /\ values.corporationNumber \notin DOMAIN cache
                /\ lastOp'.ret = Pending
                /\ gets' = Append(gets, values.corporationNumber)
      ]_vars

\* a submit whose lookup was rejected by the service: no POST, message shown
C3_Witness ==
    /\ lastOp.op = "submitResume"
    /\ lastOp.ret = Result(FALSE, ServiceMessage)
    /\ errors.corporationNumber = ServiceMessage
    /\ posts = << >>

(***************************************************************************)
(* C4.  Synchronous submission gate: a submit pressed while some field     *)
(* fails its rule makes no network call (no GET, no POST) and leaves an    *)
(* error on every failing field; on the empty form that is four errors.    *)
(***************************************************************************)
FailingFields ==
    {f \in {"firstName"} : FirstNameError(values.firstName) # NoError}
    \cup {f \in {"lastName"} : LastNameError(values.lastName) # NoError}
    \cup {f \in {"phone"} : PhoneError(values.phone) # NoError}
    \cup {f \in {"corporationNumber"} :
             values.corporationNumber \notin WellFormedNumbers}

C4_SynchronousGate ==
    [][(lastOp'.op \in {"submit", "submitInvalid"} /\ FailingFields # {}) =>
          /\ gets' = gets
          /\ posts' = posts
          /\ reqs' = reqs
          /\ procs' = procs
          /\ \A f \in Fields : errors'[f] # NoError <=> f \in FailingFields
          /\ values = DefaultValues =>
                Cardinality({f \in Fields : errors'[f] # NoError}) = 4
      ]_vars

\* submit on the empty form: four errors, nothing sent
C4_Witness ==
    /\ lastOp.op = "submitInvalid"
    /\ values = DefaultValues
    /\ Cardinality({f \in Fields : errors[f] # NoError}) = 4
    /\ gets = << >>
    /\ posts = << >>

(***************************************************************************)
(* C5.  Lookup failure handling: an uncancelled lookup that ends in a      *)
(* transport failure or a non-2xx response sets status invalid, returns    *)
(* {valid: false, message: "Invalid corporation number"} and writes        *)
(* nothing to the cache; the cache only ever takes the result of a 2xx     *)
(* payload; validate() of a 9-digit number that is not cached issues a     *)
(* new GET.                                                                *)
(***************************************************************************)
C5_FailureNotCached ==
    [][/\ \A r \in reqs :
             (Resumes(r) /\ ~r.aborted /\ lastOp'.out.kind \in {"fail", "non2xx"}) =>
                 /\ mounted => status' = "invalid"
                 /\ mounted => errorMessage' = FallbackMessage
                 /\ lastOp'.ret = Result(FALSE, FallbackMessage)
                 /\ cache' = cache
       /\ cache' # cache =>
             \E r \in reqs :
                 /\ Resumes(r)
                 /\ lastOp'.out.kind = "ok"
                 /\ lastOp'.ret.valid \/ lastOp'.ret.message \in
                        {ServiceMessage, FallbackMessage}
                 /\ cache' = CacheSet(cache, r.num, lastOp'.ret)
       /\ \A n \in WellFormedNumbers :
             (Validates(n) /\ n \notin DOMAIN cache) => gets' = Append(gets, n)
      ]_vars

\* the number failed once, was not cached, and was queried again
C5_Witness ==
    /\ lastOp.op = "resume"
    /\ lastOp.ret = Result(FALSE, FallbackMessage)
    /\ status = "invalid"
    /\ errorMessage = FallbackMessage
    /\ gets = <<NumA, NumA>>
    /\ NumA \notin DOMAIN cache

C7_AtMostOneLive ==
    /\ Cardinality(LiveRequests) <= 1
    /\ \A r \in LiveRequests : r.id = Len(gets) /\ r.id = abortRef

\* a cancelled request and its live successor
C7_Witness ==
    \E r1, r2 \in reqs :
        /\ r1.aborted /\ r1.by = "validate"
        /\ ~r2.aborted
        /\ r1.id < r2.id

(***************************************************************************)
(* C8.  A validate() answered from the cache supersedes the request in     *)
(* flight: after it no lookup request is left uncancelled.                 *)
(***************************************************************************)
C8_CacheHitSupersedes ==
    [][\A n \in DOMAIN cache : Validates(n) => LiveRequests' = {}]_vars

(***************************************************************************)
(* C9.  No error surfaces from a cancelled lookup: the continuation of a   *)
(* request that was cancelled (it rejects with an AbortError) sets neither *)
(* the hook's errorMessage nor an error on the corporation field.          *)
(***************************************************************************)
C9_NoErrorFromCancelled ==
    [][\A r \in reqs :
          (Resumes(r) /\ r.aborted /\ lastOp'.out.kind = "abort") =>
              /\ errorMessage' = errorMessage
              /\ errors'.corporationNumber \in
                     {errors.corporationNumber, NoError}]_vars

(***************************************************************************)
(* C10.  reset() cancels the request in flight, sets status idle and       *)
(* errorMessage null and keeps the cache; status then stays idle, and      *)
(* errorMessage null, until the next validate() of a 9-digit number.       *)
(***************************************************************************)
C10_ResetHolds ==
    [][/\ lastOp'.op = "reset" =>
             /\ status' = "idle"
             /\ errorMessage' = Null
             /\ cache' = cache
             /\ LiveRequests' = {}
       /\ (status = "idle" /\ LiveRequests = {}
             /\ ~\E n \in WellFormedNumbers : Validates(n)) =>
             /\ status' = "idle"
             /\ errorMessage' = Null
      ]_vars

(***************************************************************************)
(* C11.  Submission outcome exclusivity: in no reachable state are         *)
(* serverError and serverSuccess both set.                                 *)
(***************************************************************************)
C11_OutcomeExclusive == ~(ShowsServerError /\ ShowsServerSuccess)

(***************************************************************************)
(* C12.  Submission outcome clearing: every press of submit, whether it is *)
(* stopped by synchronous validation, stopped by the lookup or sent, leaves *)
(* serverError and serverSuccess cleared.                                  *)
(***************************************************************************)
C12_AttemptClearsOutcome ==
    [][lastOp'.op \in {"submit", "submitInvalid"} =>
          /\ serverError' = Null
          /\ serverSuccess' = Null]_vars

(***************************************************************************)
(* C13.  Successful submission: a POST is issued by a submit whose four    *)
(* fields pass the schema and whose lookup returned valid, one POST per    *)
(* submit, with the four fields as its body; when a POST is answered 2xx,  *)
(* serverSuccess is the success message, serverError is unset, the four    *)
(* values are empty again, status is idle with no error message and the    *)
(* cache is as it was.                                                     *)
(***************************************************************************)
C13_SuccessfulSubmission ==
    [][/\ posts' # posts =>
             /\ Len(posts') = Len(posts) + 1
             /\ DOMAIN posts'[Len(posts')] = Fields
             /\ SchemaErrors(posts'[Len(posts')]) = NoErrors
             /\ lastOp'.ret.valid
       /\ (lastOp'.op = "post" /\ lastOp'.out.kind = "ok") =>
             /\ serverSuccess' = SuccessMessage
             /\ serverError' = Null
             /\ values' = DefaultValues
             /\ status' = "idle"
             /\ errorMessage' = Null
             /\ cache' = cache
      ]_vars

(***************************************************************************)
(* C14.  Submission failure: a non-2xx answer to the POST sets serverError *)
(* to the message of its body, or to the generic fallback when the body    *)
(* has none; an exception sets it to the other fallback; in both cases     *)
(* serverSuccess is unset, the values and the lookup state are left alone  *)
(* and no further POST is sent.                                            *)
(***************************************************************************)
C14_SubmissionFailure ==
    [][(lastOp'.op = "post" /\ lastOp'.out.kind \in {"non2xx", "fail"}) =>
          /\ lastOp'.out = Resp("non2xx", FALSE, ServerRejectionMessage) =>
                serverError' = ServerRejectionMessage
          /\ lastOp'.out = Resp("non2xx", FALSE, Undefined) =>
                serverError' = SubmissionFailedMessage
          /\ lastOp'.out.kind = "fail" => serverError' = UnableToSubmitMessage
          /\ serverSuccess' = Null
          /\ values' = values
          /\ UNCHANGED <<status, errorMessage, cache, abortRef, reqs, gets>>
          /\ posts' = posts
      ]_vars

(***************************************************************************)
(* C15.  Blur of a 9-digit number whose lookup is answered with an         *)
(* explicit payload: when the payload says invalid with message m, status  *)
(* becomes invalid, the field's error is m and m is the one text shown     *)
(* under the field; when it says valid, status becomes valid, the field's  *)
(* error is cleared and no error text is shown.                            *)
(***************************************************************************)
C15_BlurPayload ==
    [][(lastOp'.op = "blurResume" /\ lastOp'.out.kind = "ok") =>
          /\ lastOp'.num \in WellFormedNumbers
          /\ lastOp'.out.valid =>
                /\ status' = "valid"
                /\ errors'.corporationNumber = NoError
                /\ RenderedCorporationErrors' = << >>
          /\ (~lastOp'.out.valid /\ lastOp'.out.message # Undefined) =>
                /\ status' = "invalid"
                /\ errorMessage' = lastOp'.out.message
                /\ errors'.corporationNumber = lastOp'.out.message
                /\ RenderedCorporationErrors' = <<lastOp'.out.message>>
      ]_vars

\* the service rejected the blurred number with its own message
C15_Witness ==
    /\ lastOp.op = "blurResume"
    /\ lastOp.num = NumA
    /\ lastOp.out = Resp("ok", FALSE, ServiceMessage)
    /\ status = "invalid"
    /\ errors.corporationNumber = ServiceMessage
    /\ RenderedCorporationErrors = <<ServiceMessage>>

(***************************************************************************)
(* C16.  When the lookup started by a blur is answered non-2xx, exactly    *)
(* one error text is shown under the field, it reads "Unable to validate   *)
(* corporation number right now.", and the plain field error               *)
(* (corporation-error) is not rendered.                                    *)
(***************************************************************************)
UnableToValidateMessage == "Unable to validate corporation number right now."

C16_UnableToValidateShown ==
    [][\A r \in reqs :
          (Resumes(r) /\ ~r.aborted /\ lastOp'.op = "blurResume"
              /\ lastOp'.out.kind = "non2xx") =>
              /\ RenderedCorporationErrors' = <<UnableToValidateMessage>>
              /\ ~ShowsCorporationError'
      ]_vars

(***************************************************************************)
(* C17.  As claimed: every blur of the corporation field holding a 9-digit *)
(* number issues exactly one GET for that number.                          *)
(***************************************************************************)
C17_EveryBlurOneGet ==
    [][(lastOp'.op = "blur" /\ lastOp'.num \in WellFormedNumbers) =>
          gets' = Append(gets, lastOp'.num)]_vars

(***************************************************************************)
(* C17, amended.  A blur of the corporation field holding a 9-digit number *)
(* that is not in the lookup cache issues exactly one GET, to the endpoint *)
(* path followed by "/" and that number; a blur of a cached number issues  *)
(* none.                                                                   *)
(***************************************************************************)
C17_BlurOneGetUnlessCached ==
    [][(lastOp'.op = "blur" /\ lastOp'.num \in WellFormedNumbers) =>
          IF lastOp'.num \in DOMAIN cache
          THEN /\ gets' = gets
               /\ reqs' = reqs
          ELSE /\ gets' = Append(gets, lastOp'.num)
               /\ \E r \in reqs' :
                     /\ {q \in reqs' : q.id > Len(gets)} = {r}
                     /\ ~r.aborted
                     /\ r.url = CorporationEndpoint \o <<"/">> \o lastOp'.num
      ]_vars

\* two blurs of the same number, the second answered from the cache
C17_Witness ==
    /\ lastOp.op = "blur"
    /\ lastOp.num = NumA
    /\ NumA \in DOMAIN cache
    /\ lastOp.ret = cache[NumA]
    /\ gets = <<NumA>>

C19_CacheStable ==
    [][/\ \A n \in DOMAIN cache :
             /\ n \in DOMAIN cache'
             /\ cache'[n] = cache[n]
       /\ \A n \in DOMAIN cache :
             Validates(n) =>
                 /\ lastOp'.ret = cache[n]
                 /\ mounted => status' = StatusOf(cache[n])
                 /\ gets' = gets
      ]_vars

(***************************************************************************)
(* C20.  Every POST carries the corporation number that the submit's own   *)
(* check passed to validate(), and the lookup service reported that number *)
(* valid, also when the field was edited or blurred while the submit was   *)
(* waiting for its lookup.                                                 *)
(***************************************************************************)
C20_PostCarriesValidatedNumber ==
    [][posts' # posts =>
          LET body == posts'[Len(posts')]
          IN  /\ lastOp'.op \in {"submit", "submitResume"}
              /\ lastOp'.num = body.corporationNumber
              /\ lastOp'.ret.valid
              /\ body.corporationNumber \in DOMAIN cache'
              /\ cache'[body.corporationNumber].valid
      ]_vars

\* the field was edited while the submit waited; the POST carries the number
\* that was checked
C20_Witness ==
    /\ lastOp.op = "submitResume"
    /\ lastOp.num = NumA
    /\ lastOp.ret.valid
    /\ posts # << >>
    /\ posts[Len(posts)].corporationNumber = NumA
    /\ values.corporationNumber = NumB

(***************************************************************************)
(* C21.  As claimed: while the hook is mounted, status loading means that  *)
(* exactly one lookup request is in flight and not cancelled; and, every   *)
(* request settling eventually, a status of loading is always followed by  *)
(* valid, invalid or idle, whatever validate() and reset() calls are made. *)
(***************************************************************************)
OneLiveWhileLoading ==
    (mounted /\ status = "loading") => Cardinality(LiveRequests) = 1

C21_LoadingResolves ==
    /\ []OneLiveWhileLoading
    /\ ((mounted /\ status = "loading")
           ~> (~mounted \/ status \in {"valid", "invalid", "idle"}))

(***************************************************************************)
(* C21, amended.  While the hook is mounted, status loading means that     *)
(* exactly one lookup request is in flight and not cancelled; and, every   *)
(* request settling eventually, status loading with the request of         *)
(* controller c in flight is always followed by valid, invalid or idle, or *)
(* by a validate() that supersedes c with a new request.                   *)
(***************************************************************************)
C21_LoadingResolvesUnlessSuperseded ==
    /\ []OneLiveWhileLoading
    /\ \A c \in Controllers :
          (mounted /\ status = "loading" /\ abortRef = c)
             ~> (~mounted \/ status \in {"valid", "invalid", "idle"}
                   \/ abortRef # c)

\* loading, with the request of the latest validate() live and an earlier
\* one cancelled but not settled yet
C21_Witness ==
    /\ mounted
    /\ status = "loading"
    /\ Cardinality(LiveRequests) = 1
    /\ Cardinality(reqs) = 2

(***************************************************************************)
(* C22: in every reachable state of the lookup hook, errorMessage is       *)
(* non-null if and only if status is invalid: idle, loading and valid      *)
(* carry a null errorMessage, and every way of becoming invalid (a cached  *)
(* result, an explicit payload, a non-2xx response, a transport failure)   *)
(* stores a message.                                                       *)
(***************************************************************************)
C22_MessageIffInvalid ==
    (errorMessage \notin {Null, Undefined}) <=> (status = "invalid")

\* validate() of a number whose cached result is invalid has just answered
\* from the cache, with the cached message
C22_Witness ==
    /\ lastOp.op = "validate"
    /\ lastOp.num \in DOMAIN cache
    /\ ~cache[lastOp.num].valid
    /\ status = "invalid"
    /\ errorMessage = cache[lastOp.num].message
    /\ errorMessage \notin {Null, Undefined}
====
